---- MODULE Spec2Model ----
(***************************************************************************)
(* Model of the data-refresh and historical-fallback engine of the        *)
(* Estonian Ambient Air Quality integration                               *)
(* (custom_components/estonian_air_quality/coordinator.py).               *)
(*                                                                         *)
(* One coordinator instance is modelled.  A refresh cycle                  *)
(* (_async_update_data) runs as a coroutine: the steps between two awaits  *)
(* are atomic, and the clock may pass midnight only while no cycle runs or *)
(* while the cycle is suspended in an HTTP call or a retry delay.          *)
(***************************************************************************)
EXTENDS Integers, Sequences, FiniteSets, TLC

(***************************************************************************)
(* Program constants                                                       *)
(***************************************************************************)
MAX_HISTORICAL_DAYS == 7
MAX_RETRIES == 3
EXTENDED_DATA_WINDOW == 3

DATA_TYPE_POLLEN == "pollen"
DATA_TYPE_RADIATION == "radiation"
DATA_TYPE_AIR_QUALITY == "airquality"

\* The rows of the hardcoded station catalog that the modelled configurations use.
STATIONS ==
    [airquality |-> (5 :> <<21, 23, 3, 4, 6, 1>> @@ 6 :> <<1, 3, 4, 6, 21, 11>>),
     pollen     |-> (23 :> <<48, 51, 59, 49, 57, 47, 62, 44>>
                     @@ 25 :> <<48, 51, 59, 49, 57, 47, 62, 44>>),
     radiation  |-> (45 :> <<80>> @@ 46 :> <<80>>)]

\* The rows of the hardcoded indicator catalog that the sensors of the modelled
\* configurations use. Names and formulas are written letter by letter, since
\* the sensor looks for substrings in them; a formula of None is None; the
\* units are written in ASCII (ug/m3 for micrograms, mg/m3, tk/m3, nSv/h).
INDICATORS ==
    [airquality |->
        (1  :> [name |-> <<"S","u","l","p","h","u","r">>, formula |-> <<<<"S","O","2">>>>,
                unit |-> "ug/m3"]
      @@ 3  :> [name |-> <<"N","i","t","r","o","g","e","n">>, formula |-> <<<<"N","O","2">>>>,
                unit |-> "ug/m3"]
      @@ 4  :> [name |-> <<"C","a","r","b","o","n">>, formula |-> <<<<"C","O">>>>,
                unit |-> "mg/m3"]
      @@ 6  :> [name |-> <<"O","z","o","n","e">>, formula |-> <<<<"O","3">>>>,
                unit |-> "ug/m3"]
      @@ 21 :> [name |-> <<"P","M","1","0">>, formula |-> <<<<"P","M","1","0">>>>,
                unit |-> "ug/m3"]
      @@ 23 :> [name |-> <<"P","M","2",".","5">>, formula |-> <<<<"P","M","2",".","5">>>>,
                unit |-> "ug/m3"]),
     pollen |->
        (48 :> [name |-> <<"B","i","r","c","h">>, formula |-> <<>>, unit |-> "tk/m3"]
      @@ 51 :> [name |-> <<"A","l","d","e","r">>, formula |-> <<>>, unit |-> "tk/m3"]),
     radiation |->
        (80 :> [name |-> <<"R","a","d","i","a","t","i","o","n">>, formula |-> <<>>,
                unit |-> "nSv/h"])]

(***************************************************************************)
(* Bounds of the model                                                     *)
(***************************************************************************)
\* Number of midnights the clock may pass.
MaxMidnights == 1

\* Number of refresh cycles that may be started.
MaxCycles == 2

\* Number of records the body of a response carries at most.
MaxItems == 2

\* Number of configuration entries the wizard may create.
MaxEntries == 2

(***************************************************************************)
(* Dates.  A datetime is the ordinal of its day in the year 2025 (the time *)
(* of day is not represented); a date string "%d.%m.%Y" is <<d, m, y>>.     *)
(***************************************************************************)
MonthDays == <<31, 28, 31, 30, 31, 30, 31, 31, 30, 31, 30, 31>>

\* The day the model starts on: 3 March 2025, so that the windows behind it
\* reach into February.
FirstDay == 31 + 28 + 3

RECURSIVE DayAndMonth(_, _)
DayAndMonth(ordinal, month) ==
    IF ordinal <= MonthDays[month]
    THEN <<ordinal, month>>
    ELSE DayAndMonth(ordinal - MonthDays[month], month + 1)

\* datetime.strftime("%d.%m.%Y")
strftime(dt) ==
    LET dm == DayAndMonth(dt, 1) IN <<dm[1], dm[2], 2025>>

RECURSIVE DaysBefore(_)
DaysBefore(month) ==
    IF month = 1 THEN 0 ELSE MonthDays[month - 1] + DaysBefore(month - 1)

\* datetime.strptime(s, "%d.%m.%Y")
strptime(s) == DaysBefore(s[2]) + s[1]

\* datetime - timedelta(days=n)
MinusDays(dt, n) == dt - n

\* datetime.isoformat(), to the day
isoformat(dt) ==
    LET dm == DayAndMonth(dt, 1) IN <<2025, dm[2], dm[1]>>

NoDate == <<0, 0, 0>>

(***************************************************************************)
(* Python values                                                           *)
(***************************************************************************)
\* {} : the empty dict
EmptyDict == [k \in {} |-> <<>>]

\* d[k] = v
Put(d, k, v) == [x \in (DOMAIN d) \cup {k} |-> IF x = k THEN v ELSE d[x]]

\* None and a present value
None == <<>>
Some(v) == <<v>>

\* int(station_id): the configuration holds the station as a string
int(s) ==
    CASE s = "23" -> 23
      [] s = "45" -> 45
      [] s = "99" -> 99
      [] s = "5" -> 5
      [] s = "6" -> 6
      [] s = "25" -> 25
      [] s = "46" -> 46

\* str(station_id)
str(n) ==
    CASE n = 5 -> "5"
      [] n = 6 -> "6"
      [] n = 23 -> "23"
      [] n = 25 -> "25"
      [] n = 45 -> "45"
      [] n = 46 -> "46"

(***************************************************************************)
(* The upstream API, as the environment                                    *)
(***************************************************************************)
\* What one attempt (one GET) can end in, apart from the body of a 200 response:
\* a 200 response, a non-200 response, a timeout, a transport failure,
\* a body that cannot be decoded, a body whose records cannot be processed,
\* a request the client library rejects as malformed (ValueError, InvalidURL).
AllReplies ==
    { [kind |-> "ok", status |-> 200],
      [kind |-> "http", status |-> 404],
      [kind |-> "http", status |-> 503],
      [kind |-> "timeout", status |-> 0],
      [kind |-> "client_error", status |-> 0],
      [kind |-> "decode", status |-> 200],
      [kind |-> "bad_record", status |-> 200],
      [kind |-> "malformed", status |-> 0] }

\* An upstream that answers every request with 200, at times with a body that
\* cannot be decoded.
PlainReplies ==
    { [kind |-> "ok", status |-> 200],
      [kind |-> "decode", status |-> 200] }

\* An upstream that answers 200 or 503.
OutageReplies ==
    { [kind |-> "ok", status |-> 200],
      [kind |-> "http", status |-> 503] }

\* The exceptions that may be raised in a cycle outside the per-category fetch
\* path: one that the `except aiohttp.ClientError` handler takes, one that the
\* `except Exception` handler takes.
AllFaults == {"ClientError", "Exception"}
PlainFaults == {"Exception"}

\* The record a station reports for the first of the requested indicators.
PlainRecords(station, indicators) ==
    { [indicator |-> indicators[1], measured |-> "2025-03-01 10:00:00",
       value |-> "1.5", station |-> station] }

\* Records of an air quality station for carbon monoxide (indicator 4) and
\* PM10 (indicator 21): for each an older and a newer one; the older carbon
\* monoxide value is the greater one, the newer PM10 value is not a number.
SensorRecords(station) ==
    { [indicator |-> 4, measured |-> "2025-03-01 10:00:00", value |-> "2.5",
       station |-> station],
      [indicator |-> 4, measured |-> "2025-03-01 11:00:00", value |-> "1.5",
       station |-> station],
      [indicator |-> 21, measured |-> "2025-03-01 10:00:00", value |-> "1.5",
       station |-> station],
      [indicator |-> 21, measured |-> "2025-03-01 11:00:00", value |-> "n/a",
       station |-> station] }

\* Two records for the first of the requested indicators and one for the
\* second, if there is a second.
AllRecords(station, indicators) ==
    { [indicator |-> indicators[k], measured |-> "2025-03-01 10:00:00",
       value |-> v, station |-> station] :
          k \in (1..2) \cap DOMAIN indicators, v \in {"1.5", "2.5"} }
    \ { [indicator |-> indicators[k], measured |-> "2025-03-01 10:00:00",
         value |-> "2.5", station |-> station] : k \in {2} \cap DOMAIN indicators }

\* The bodies a 200 response may carry when the upstream holds the records
\* `recs`: every list of at most MaxItems of them, none twice.
Bodies(recs) ==
    UNION { { b \in [1..n -> recs] : \A i, j \in 1..n : b[i] = b[j] => i = j } :
               n \in 0..MaxItems }

\* A 200 response as the decoding of lines 197-219 meets it: whether
\* resp.text() decodes the bytes with the declared charset, and under which
\* decoding json.loads first succeeds ("first": the text of resp.text() or of
\* the UTF-8 decoding with replacement; "latin1"; "never").
EncodedReplies ==
    { [kind |-> "encoded", status |-> 200, text |-> t, json |-> j] :
         t \in BOOLEAN, j \in {"first", "latin1", "never"} }

\* Mutant: a body that json.loads rejects is not decoded again as Latin-1
DecodeStepsNoLatin1(r) ==
    IF r.status # 200
    THEN <<>>
    ELSE LET text == IF r.kind = "encoded" THEN r.text ELSE TRUE
             json == IF r.kind = "encoded" THEN r.json
                     ELSE IF r.kind = "decode" THEN "never" ELSE "first"
         IN <<[step |-> "text", ok |-> text]>>
            \o (IF text THEN <<>> ELSE <<[step |-> "utf8_replace", ok |-> TRUE]>>)
            \o <<[step |-> "json", ok |-> json = "first"]>>

\* The decoding steps an attempt goes through on the reply `r`, in order, each
\* with whether it succeeded (lines 195-219): resp.text(); on
\* UnicodeDecodeError the bytes decoded as UTF-8 with replacement, which
\* cannot fail; json.loads; on JSONDecodeError the bytes decoded as Latin-1
\* and json.loads again. The replies "ok" and "bad_record" decode and parse at
\* once, the reply "decode" parses under no decoding.
DecodeSteps(r) ==
    IF r.status # 200
    THEN <<>>
    ELSE LET text == IF r.kind = "encoded" THEN r.text ELSE TRUE
             json == IF r.kind = "encoded" THEN r.json
                     ELSE IF r.kind = "decode" THEN "never" ELSE "first"
         IN <<[step |-> "text", ok |-> text]>>
            \o (IF text THEN <<>> ELSE <<[step |-> "utf8_replace", ok |-> TRUE]>>)
            \o <<[step |-> "json", ok |-> json = "first"]>>
            \o (IF json = "first"
                THEN <<>>
                ELSE <<[step |-> "latin1_json", ok |-> json = "latin1"]>>)

\* What the attempt ends in on the reply `r`: a 200 reply whose last decoding
\* step gave a parsed body goes on to the processing of line 226, one whose
\* last step failed is the failure of lines 216-223.
Decoded(r) ==
    IF r.kind # "encoded"
    THEN r.kind
    ELSE IF DecodeSteps(r)[Len(DecodeSteps(r))].ok THEN "ok" ELSE "decode"

\* The outcomes of one attempt, given the replies the upstream gives and the
\* records it holds.
Outcomes(replies, recs) ==
         { [kind |-> Decoded(r), status |-> r.status, body |-> b, steps |-> DecodeSteps(r)] :
              r \in {x \in replies : Decoded(x) = "ok"}, b \in Bodies(recs) }
    \cup { [kind |-> Decoded(r), status |-> r.status, body |-> <<>>,
            steps |-> DecodeSteps(r)] :
              r \in {x \in replies : Decoded(x) # "ok"} }

(***************************************************************************)
(* State                                                                   *)
(***************************************************************************)
VARIABLES
    now,                    \* the clock: ordinal of the current day
    upstream,               \* the replies the upstream API gives in this run
    records,                \* per data type, the records the upstream holds in this run
    faults,                 \* the exceptions that may be raised in this run
    cycles,                 \* number of cycles started
    data_types,             \* config_entry.data[CONF_DATA_TYPES]
    stations,               \* config_entry.data[CONF_STATIONS]
    data,                   \* coordinator.data: the cached snapshot, or None
    last_successful_dates,  \* coordinator.last_successful_dates
    last_checked_dates,     \* coordinator.last_checked_dates
    api_status,             \* coordinator.api_status
    pc,                     \* where the cycle is
    today,                  \* _async_update_data: today
    extended_start_date,    \* _async_update_data: extended_start_date
    new_data,               \* _async_update_data: the local dict `data`
    idx,                    \* _async_update_data: position in data_types
    phase,                  \* which call of _fetch_data_for_date_range is running
    current_date,           \* _fetch_with_historical_fallback: current_date
    days_back,              \* _fetch_with_historical_fallback: days_back
    start_date,             \* _fetch_data_for_date_range: start_date
    end_date,               \* _fetch_data_for_date_range: end_date
    retries,                \* _fetch_data_for_date_range: retries
    resp_json,              \* _fetch_data_for_date_range: resp_json
    result,                 \* what _fetch_data_for_date_range returned
    ftrace,                 \* history: GETs and delays of the retried fetch
    foutcomes,              \* history: outcomes of its attempts
    fdecoded,               \* history: the decoding steps of its attempts
    fstate,                 \* history: "none", "running", "returned", "raised"
    search,                 \* history: the windows the fallback search fetched
    tried,                  \* history: per position in data_types, how its attempts went
    ret,                    \* history: what the last cycle returned
    pre_dates,              \* history: last_successful_dates when the cycle started
    flow_step,              \* config flow: the form shown, "none" or "done"
    flow_data,              \* config flow: self.data
    entry,                  \* config flow: the data of the entry it created, or None
    created,                \* number of configuration entries created
    loaded,                 \* the entry ids in hass.data[DOMAIN]
    registered,             \* whether the service update_air_quality_data is registered
    asked,                  \* history: the data types the flow asked a station for
    submitted,              \* history: the stations submitted to the flow
    own,                    \* history: what the fetches of this cycle returned, by data type
    active,                 \* which call of _async_update_data the locals above belong to
    parked                  \* the locals of the other call, suspended or not started

config == <<upstream, records, faults, data_types, stations>>
coord == <<data, last_successful_dates, last_checked_dates, api_status>>
cycle == <<today, extended_start_date, new_data, idx>>
fallback == <<phase, current_date, days_back>>
fetch == <<start_date, end_date, retries, resp_json, result>>
fhist == <<ftrace, foutcomes, fdecoded, fstate>>
chist == <<tried, ret, pre_dates>>
setup == <<flow_step, flow_data, entry, created, loaded, registered, asked, submitted>>
overlap == <<active, parked>>
coordinator == <<now, cycles, config, coord, pc, cycle, fallback, fetch, fhist, search, chist,
                 own, overlap>>
vars == <<coordinator, setup>>

\* The configurations: every data type has a station picked in the wizard;
\* station 99 stands for a station that is not in the catalog.
Configurations ==
    { [data_types |-> <<DATA_TYPE_POLLEN, DATA_TYPE_RADIATION>>,
       stations |-> [pollen |-> "23", radiation |-> "45"]],
      [data_types |-> <<DATA_TYPE_POLLEN, DATA_TYPE_RADIATION>>,
       stations |-> [pollen |-> "23", radiation |-> "99"]] }

\* The configuration with a catalogued station for both data types.
BothFetched ==
    [data_types |-> <<DATA_TYPE_POLLEN, DATA_TYPE_RADIATION>>,
     stations |-> [pollen |-> "23", radiation |-> "45"]]

\* A configuration with the one data type pollen.
PollenOnly ==
    [data_types |-> <<DATA_TYPE_POLLEN>>, stations |-> [pollen |-> "23"]]

\* A configuration with the one data type air quality.
AirQualityOnly ==
    [data_types |-> <<DATA_TYPE_AIR_QUALITY>>, stations |-> [airquality |-> "5"]]

\* A configuration with two data types that are fetched directly.
DirectTypes ==
    [data_types |-> <<DATA_TYPE_AIR_QUALITY, DATA_TYPE_RADIATION>>,
     stations |-> [airquality |-> "5", radiation |-> "45"]]

\* A configuration with the one data type radiation.
RadiationOnly ==
    [data_types |-> <<DATA_TYPE_RADIATION>>, stations |-> [radiation |-> "45"]]

NoStatus == [status |-> "", error |-> "", http_status |-> 0, last_checked |-> NoDate]

\* The locals of a call of _async_update_data and of the calls it makes, with
\* the history kept for the call
Locals ==
    [pc |-> pc, today |-> today, extended_start_date |-> extended_start_date,
     new_data |-> new_data, idx |-> idx, phase |-> phase,
     current_date |-> current_date, days_back |-> days_back,
     start_date |-> start_date, end_date |-> end_date, retries |-> retries,
     resp_json |-> resp_json, result |-> result, ftrace |-> ftrace,
     foutcomes |-> foutcomes, fdecoded |-> fdecoded, fstate |-> fstate,
     search |-> search, tried |-> tried, ret |-> ret, pre_dates |-> pre_dates,
     own |-> own]

\* Home Assistant after async_setup of the component (__init__.py, lines
\* 16-24): hass.data[DOMAIN] is empty, the service is registered; no config
\* flow has been started.
SetUp ==
    /\ flow_step = "none"
    /\ flow_data = EmptyDict
    /\ entry = None
    /\ created = 0
    /\ loaded = {}
    /\ registered = TRUE
    /\ asked = <<>>
    /\ submitted = <<>>

\* The coordinator after __init__ (lines 41-60), configured with `cfg`, in a
\* Home Assistant that has set the component up
Constructed(cfg) ==
    /\ now = FirstDay
    /\ cycles = 0
    /\ data_types = cfg.data_types
    /\ stations = cfg.stations
    /\ data = None
    /\ last_successful_dates = EmptyDict
    /\ last_checked_dates = EmptyDict
    /\ api_status = EmptyDict
    /\ pc = "idle"
    /\ today = NoDate
    /\ extended_start_date = NoDate
    /\ new_data = EmptyDict
    /\ idx = 1
    /\ phase = "none"
    /\ current_date = 0
    /\ days_back = 0
    /\ start_date = NoDate
    /\ end_date = NoDate
    /\ retries = 0
    /\ resp_json = <<>>
    /\ result = EmptyDict
    /\ ftrace = <<>>
    /\ foutcomes = <<>>
    /\ fdecoded = <<>>
    /\ fstate = "none"
    /\ search = <<>>
    /\ tried = [i \in DOMAIN cfg.data_types |-> "none"]
    /\ ret = [kind |-> "none", value |-> None]
    /\ pre_dates = EmptyDict
    /\ own = EmptyDict
    /\ active = "scheduled"
    /\ parked = Locals
    /\ SetUp

(***************************************************************************)
(* Helpers of the coordinator                                              *)
(***************************************************************************)
\* get_station_indicators
get_station_indicators(data_type, station_id) ==
    LET id == int(station_id) IN
    IF data_type \in DOMAIN STATIONS /\ id \in DOMAIN STATIONS[data_type]
    THEN STATIONS[data_type][id]
    ELSE <<>>

\* `if data_type not in self.api_status: self.api_status[data_type] = {}`
Ensure(status, data_type) ==
    IF data_type \in DOMAIN status THEN status ELSE Put(status, data_type, NoStatus)

\* The records the upstream holds for the stations of the configuration `cfg`
Held(cfg, every) ==
    [dt \in { cfg.data_types[i] : i \in DOMAIN cfg.data_types } |->
        LET indicators == get_station_indicators(dt, cfg.stations[dt]) IN
        IF indicators = <<>>
        THEN {}
        ELSE IF every
        THEN AllRecords(int(cfg.stations[dt]), indicators)
        ELSE PlainRecords(int(cfg.stations[dt]), indicators)]

Init ==
    /\ upstream = PlainReplies
    /\ faults = PlainFaults
    /\ \E cfg \in Configurations : Constructed(cfg) /\ records = Held(cfg, FALSE)

\* Both data types fetched from an upstream that answers 200 or 503; nothing
\* is raised outside the fetch path.
InitOutage ==
    /\ upstream = OutageReplies
    /\ faults = {}
    /\ Constructed(BothFetched)
    /\ records = Held(BothFetched, FALSE)

\* Pollen alone, from an upstream that always answers 200 and holds several
\* records for several indicators.
InitParse ==
    /\ upstream = { [kind |-> "ok", status |-> 200] }
    /\ faults = {}
    /\ Constructed(PollenOnly)
    /\ records = Held(PollenOnly, TRUE)

\* One data type, pollen or radiation, from an upstream that answers 200 or 503.
InitLive ==
    /\ upstream = OutageReplies
    /\ faults = {}
    /\ \E cfg \in {PollenOnly, RadiationOnly} :
          Constructed(cfg) /\ records = Held(cfg, FALSE)

\* Radiation alone, from an upstream whose 200 responses go through every
\* course of the decoding.
InitDecode ==
    /\ upstream = EncodedReplies
    /\ faults = {}
    /\ Constructed(RadiationOnly)
    /\ records = Held(RadiationOnly, FALSE)

\* Air quality alone, from an upstream that always answers 200 and holds
\* older and newer records for two indicators.
InitSensor ==
    /\ upstream = { [kind |-> "ok", status |-> 200] }
    /\ faults = {}
    /\ Constructed(AirQualityOnly)
    /\ records = [airquality |-> SensorRecords(int(AirQualityOnly.stations.airquality))]

\* The component set up, before any configuration entry exists.
InitSetup ==
    /\ upstream = {}
    /\ faults = {}
    /\ Constructed(BothFetched)
    /\ records = Held(BothFetched, FALSE)

\* Two directly fetched data types, from an upstream that answers 200 or 503,
\* within one day.
InitOverlap ==
    /\ upstream = OutageReplies
    /\ faults = {}
    /\ Constructed(DirectTypes)
    /\ records = Held(DirectTypes, FALSE)

InitRetry ==
    /\ upstream = AllReplies
    /\ faults = AllFaults
    /\ Constructed(RadiationOnly)
    /\ records = Held(RadiationOnly, FALSE)

\* Mutant: two more attempts than the bound
ShouldRetryTwiceMore(r) == r < MAX_RETRIES + 2

\* Mutant: the bound of the retry counter is off by one
ShouldRetryOnceMore(r) == r <= MAX_RETRIES

\* `while retries < MAX_RETRIES` and `if retries < MAX_RETRIES` after the increment
ShouldRetry(r) == r < MAX_RETRIES

\* Mutant: an exception while processing the records is not caught
\* Mutant: a non-200 response raises
CaughtButStatus(kind) ==
    kind \in {"decode", "timeout", "client_error", "bad_record", "malformed"}

CaughtButRecords(kind) == kind \in {"http", "decode", "timeout", "client_error", "malformed"}

\* The failures of an attempt that the handlers of the retried fetch catch:
\* non-200 falls through the `if`, a decode failure is caught by the inner
\* `except Exception`, a timeout by `except asyncio.TimeoutError`, and every
\* other exception raised inside the `try` by `except Exception`.
Caught(kind) ==
    kind \in {"http", "decode", "timeout", "client_error", "bad_record", "malformed"}

\* str(ex) of the exception an attempt ended in
ErrorText(kind) ==
    CASE kind = "client_error" -> "ClientError"
      [] kind = "bad_record" -> "KeyError"
      [] kind = "malformed" -> "ValueError"
      [] OTHER -> ""

\* What a failed attempt writes to self.api_status (lines 249-251, 266-268, 283-286)
AttemptStatus(status, data_type, o) ==
    CASE o.kind = "http" ->
            [Ensure(status, data_type) EXCEPT ![data_type].http_status = o.status]
      [] o.kind = "timeout" ->
            [Ensure(status, data_type) EXCEPT ![data_type].status = "timeout"]
      [] o.kind \in {"client_error", "bad_record", "malformed"} ->
            [Ensure(status, data_type) EXCEPT ![data_type].status = "error",
                                              ![data_type].error = ErrorText(o.kind)]
      [] OTHER -> status

\* Mutant: the record is stamped with the date of the clock
MeasurementStampedNow(item, fetch_date, clock) ==
    [measured |-> item.measured,
     value |-> item.value,
     station |-> item.station,
     last_checked |-> isoformat(clock),
     fetch_date |-> strftime(clock),
     status |-> "success",
     returned_code |-> <<"station_", item.station>>]

\* The record the fetch stores for one item of the response (lines 233-241)
Measurement(item, fetch_date, clock) ==
    [measured |-> item.measured,
     value |-> item.value,
     station |-> item.station,
     last_checked |-> isoformat(clock),
     fetch_date |-> fetch_date,
     status |-> "success",
     returned_code |-> <<"station_", item.station>>]

\* Mutant: the newest record of an indicator is filed first
RECURSIVE ProcessNewestFirst(_, _, _, _)
ProcessNewestFirst(items, acc, fetch_date, clock) ==
    IF items = <<>>
    THEN acc
    ELSE LET item == Head(items)
             id == item.indicator
             sofar == IF id \in DOMAIN acc THEN acc[id] ELSE <<>>
         IN ProcessNewestFirst(Tail(items),
                    Put(acc, id, <<Measurement(item, fetch_date, clock)>> \o sofar),
                    fetch_date, clock)

\* Grouping the items of a response by indicator, in response order (lines 226-243)
RECURSIVE Process(_, _, _, _)
Process(items, acc, fetch_date, clock) ==
    IF items = <<>>
    THEN acc
    ELSE LET item == Head(items)
             id == item.indicator
             sofar == IF id \in DOMAIN acc THEN acc[id] ELSE <<>>
         IN Process(Tail(items),
                    Put(acc, id, Append(sofar, Measurement(item, fetch_date, clock))),
                    fetch_date, clock)

\* Mutant: any returned dict counts as data
HasDataAlways(r) == TRUE

\* `if result and any(values for values in result.values() if values)`
HasData(r) == DOMAIN r # {} /\ \E k \in DOMAIN r : r[k] # <<>>

\* Mutant: every dict is taken for true
TruthyAlways(d) == TRUE

\* `if data[data_type]`, `if ... self.data`: truth of a dict
Truthy(d) == DOMAIN d # {}

\* Mutant: the historical window is the single day `days` days back
HistoricalEndSingleDay(date, days) == strftime(MinusDays(date, days))

\* The window of the historical step `days` days back (lines 154-157)
HistoricalEnd(date, days) == strftime(MinusDays(date, days - EXTENDED_DATA_WINDOW))
HistoricalStart(date, days) == strftime(MinusDays(date, days))

\* range(EXTENDED_DATA_WINDOW + 1, MAX_HISTORICAL_DAYS + 1)
FirstDaysBack == EXTENDED_DATA_WINDOW + 1

\* Mutant: the range of the walk includes one day more
LastDaysBackInclusive == MAX_HISTORICAL_DAYS + 1

LastDaysBack == MAX_HISTORICAL_DAYS

\* Mutant: the window of the last known date is one day wide
LastKnownStartSameDay(last_date) == last_date

\* The window ending at the last known successful date (lines 172-174)
LastKnownStart(last_date) ==
    strftime(MinusDays(strptime(last_date), EXTENDED_DATA_WINDOW))

\* Mutant: the handler marks the first data type only
MarkedFirst(types) == { types[i] : i \in {1} \cap DOMAIN types }

\* The data types whose status an except handler of the cycle marks (lines 111, 125)
Marked(types) == { types[i] : i \in 1..Len(types) }

\* The status an except handler of the cycle writes (lines 110-116, 124-130)
ErrorStatus(status, types, label, text, clock) ==
    [dt \in (DOMAIN status) \cup Marked(types) |->
        IF dt \in Marked(types)
        THEN [(IF dt \in DOMAIN status THEN status[dt] ELSE NoStatus)
                 EXCEPT !.status = label, !.error = text,
                        !.last_checked = isoformat(clock)]
        ELSE status[dt]]

\* `if hasattr(self, "data") and self.data`
HasCachedData(d) == d # None /\ Truthy(d[1])

DataType == data_types[idx]

\* Mutant: every data type is fetched with the historical fallback
UsesFallbackAlways(data_type) == TRUE

\* `if data_type == DATA_TYPE_POLLEN` (line 84)
UsesFallback(data_type) == data_type = DATA_TYPE_POLLEN

(***************************************************************************)
(* The sensors, which read the coordinator (sensor.py)                     *)
(***************************************************************************)
\* datetime.fromisoformat(measured.replace(" ", "T")), as the number
\* yyyymmddhh, which orders the timestamps of the records as the datetimes do
fromisoformat(measured) ==
    CASE measured = "2025-03-01 10:00:00" -> 2025030110
      [] measured = "2025-03-01 11:00:00" -> 2025030111

\* Mutant: the latest point is taken to be the last of the list
LatestInOrder(data_points) == data_points[Len(data_points)]

\* max(data_points, key=...): the first of the points with the greatest
\* measured timestamp (lines 153, 192)
Latest(data_points) ==
    LET key(i) == fromisoformat(data_points[i].measured)
        best == CHOOSE i \in DOMAIN data_points :
                   /\ \A j \in DOMAIN data_points : key(j) <= key(i)
                   /\ \A j \in 1..(i - 1) : key(j) < key(i)
    IN data_points[best]

\* The guards of lines 145-151 and 185-191: the snapshot is there and not
\* empty, it has the data type and the indicator, and the list is not empty
HasPoints(snapshot, data_type, indicator_id) ==
    /\ snapshot # None
    /\ Truthy(snapshot[1])
    /\ data_type \in DOMAIN snapshot[1]
    /\ indicator_id \in DOMAIN snapshot[1][data_type]
    /\ snapshot[1][data_type][indicator_id] # <<>>

\* `sub in text` for two strings written letter by letter
Contains(text, sub) ==
    \E i \in 0..(Len(text) - Len(sub)) :
        \A k \in 1..Len(sub) : text[i + k] = sub[k]

\* The sensor that async_setup_entry creates for the indicator of the data
\* type, as __init__ sets it up (lines 74-129): the original unit, the device
\* class and the unit the sensor reports
Sensor(data_type, indicator_id) ==
    LET indicator == INDICATORS[data_type][indicator_id]
        indicator_name == indicator.name
        formula == IF indicator.formula = None THEN <<>> ELSE indicator.formula[1]
        pm == \/ indicator_name = <<"P","M","1","0">>
              \/ indicator_name = <<"P","M","2",".","5">>
              \/ Contains(formula, <<"P","M">>)
    IN [data_type |-> data_type,
        indicator_id |-> indicator_id,
        original_unit |-> indicator.unit,
        device_class |->
           IF pm
           THEN IF Contains(indicator_name, <<"2",".","5">>)
                   \/ Contains(formula, <<"2",".","5">>)
                THEN "PM25" ELSE "PM10"
           ELSE IF Contains(formula, <<"C","O","2">>) THEN "CO2"
           ELSE IF Contains(formula, <<"C","O">>) /\ ~Contains(formula, <<"2">>)
           THEN "CO"
           ELSE "",
        native_unit_of_measurement |->
           IF pm THEN "ug/m3"
           ELSE IF Contains(formula, <<"C","O","2">>) THEN "ppm"
           ELSE IF Contains(formula, <<"C","O">>) /\ ~Contains(formula, <<"2">>)
           THEN "ppm"
           ELSE indicator.unit]

\* The sensors async_setup_entry creates for a configuration (lines 44-66)
Sensors(types, picked) ==
    UNION { { Sensor(types[i], id) :
                id \in { x \in DOMAIN INDICATORS[types[i]] :
                   \E k \in DOMAIN get_station_indicators(types[i], picked[types[i]]) :
                      get_station_indicators(types[i], picked[types[i]])[k] = x } } :
            i \in DOMAIN types }

\* float(value): the number, in ten-thousandths, or None for the ValueError
\* or TypeError of a value that is not a number
float(value) ==
    CASE value = "1.5" -> Some(15000)
      [] value = "2.5" -> Some(25000)
      [] OTHER -> None

\* native_value (lines 142-168) of the sensor reading the snapshot; numbers in
\* ten-thousandths, value * 0.873 in exact decimal arithmetic
native_value(sensor, snapshot) ==
    IF HasPoints(snapshot, sensor.data_type, sensor.indicator_id)
    THEN LET latest == Latest(snapshot[1][sensor.data_type][sensor.indicator_id])
             value == float(latest.value)
         IN IF value = None
            THEN None
            ELSE IF /\ sensor.device_class = "CO"
                    /\ sensor.original_unit = "mg/m3"
                    /\ sensor.native_unit_of_measurement = "ppm"
                 THEN Some((value[1] * 873) \div 1000)
                 ELSE value
    ELSE None

\* Mutant: the fetch date is compared with the date the coordinator last checked
extra_state_attributes_by_check(snapshot, successful, checked, clock, data_type, indicator_id) ==
    LET a0 == EmptyDict
        a1 == IF HasPoints(snapshot, data_type, indicator_id)
              THEN LET latest == Latest(snapshot[1][data_type][indicator_id])
                       b1 == Put(a0, "last_measured", latest.measured)
                       b2 == Put(b1, "last_checked", latest.last_checked)
                       b3 == Put(b2, "fetch_date", latest.fetch_date)
                   IN IF data_type \in DOMAIN checked
                         /\ latest.fetch_date # checked[data_type]
                      THEN Put(b3, "is_historical", TRUE)
                      ELSE b3
              ELSE a0
        a2 == IF data_type \in DOMAIN successful
              THEN Put(a1, "last_successful_date", successful[data_type])
              ELSE a1
    IN IF data_type \in DOMAIN checked
       THEN Put(a2, "coordinator_last_checked", checked[data_type])
       ELSE a2

\* extra_state_attributes (lines 170-218), without the attributes that are
\* fixed at construction: read from the snapshot, last_successful_dates and
\* last_checked_dates of the coordinator on the day `clock`
extra_state_attributes(snapshot, successful, checked, clock, data_type, indicator_id) ==
    LET a0 == EmptyDict
        a1 == IF HasPoints(snapshot, data_type, indicator_id)
              THEN LET latest == Latest(snapshot[1][data_type][indicator_id])
                       b1 == Put(a0, "last_measured", latest.measured)
                       b2 == Put(b1, "last_checked", latest.last_checked)
                       b3 == Put(b2, "fetch_date", latest.fetch_date)
                   IN IF latest.fetch_date # strftime(clock)
                      THEN Put(b3, "is_historical", TRUE)
                      ELSE b3
              ELSE a0
        a2 == IF data_type \in DOMAIN successful
              THEN Put(a1, "last_successful_date", successful[data_type])
              ELSE a1
    IN IF data_type \in DOMAIN checked
       THEN Put(a2, "coordinator_last_checked", checked[data_type])
       ELSE a2

(***************************************************************************)
(* Frames: the locals of a call are dropped when it returns                *)
(***************************************************************************)
DropFetch ==
    /\ phase' = "none" /\ current_date' = 0 /\ days_back' = 0
    /\ start_date' = NoDate /\ end_date' = NoDate /\ retries' = 0
    /\ resp_json' = <<>> /\ result' = EmptyDict

DropCycle ==
    /\ today' = NoDate /\ extended_start_date' = NoDate
    /\ new_data' = EmptyDict /\ idx' = 1
    /\ tried' = [i \in DOMAIN tried |-> "none"]

DropHistory ==
    /\ ftrace' = <<>> /\ foutcomes' = <<>> /\ fstate' = "none"
    /\ fdecoded' = <<>>
    /\ search' = <<>>

\* Entering _fetch_data_for_date_range and issuing its first GET (lines 180-194)
BeginFetch(s, e) ==
    /\ start_date' = s /\ end_date' = e /\ retries' = 0
    /\ resp_json' = <<>> /\ result' = EmptyDict
    /\ ftrace' = <<"GET">> /\ foutcomes' = <<>> /\ fstate' = "running"
    /\ fdecoded' = <<>>
    /\ pc' = "http"

\* The except handlers of _async_update_data (lines 110-137) and what
\* DataUpdateCoordinator does with the outcome: a returned value becomes
\* coordinator.data, UpdateFailed leaves coordinator.data as it was.
HandleError(label, text) ==
    /\ api_status' = ErrorStatus(api_status, data_types, label, text, now)
    /\ IF HasCachedData(data)
       THEN ret' = [kind |-> "cached", value |-> data]
       ELSE ret' = [kind |-> "UpdateFailed", value |-> None]
    /\ data' = data
    /\ own' = EmptyDict
    /\ pc' = "idle"
    /\ DropFetch /\ DropCycle

\* History: the search log with what its last window returned
Closed(log, r) ==
    IF phase = "direct"
    THEN log
    ELSE [log EXCEPT ![Len(log)].got = Some(r)]

\* History: a window the fallback search fetches, computed from the datetime
\* `date` for the step `days` days back
Window(s, e, step, date, days) ==
    [start_date |-> s, end_date |-> e, phase |-> step,
     date |-> date, days_back |-> days, got |-> None]

(***************************************************************************)
(* Actions                                                                 *)
(***************************************************************************)
\* Midnight passes.  A cycle lasts minutes, so at most one midnight passes
\* while it runs, and only while it is suspended.
Tick ==
    /\ now < FirstDay + MaxMidnights
    /\ \/ pc = "idle"
       \/ pc \in {"http", "sleep"} /\ strftime(now) = today
    /\ now' = now + 1
    /\ UNCHANGED <<cycles, config, setup, overlap, own, coord, pc, cycle, fallback, fetch, fhist, search, chist>>

\* The scheduler or force_update starts a cycle (lines 62-72)
StartCycle ==
    /\ pc = "idle"
    /\ cycles < MaxCycles
    /\ cycles' = cycles + 1
    /\ pc' = "loop"
    /\ today' = strftime(now)
    /\ extended_start_date' = strftime(MinusDays(now, EXTENDED_DATA_WINDOW))
    /\ new_data' = EmptyDict
    /\ idx' = 1
    /\ tried' = [i \in DOMAIN tried |-> "none"]
    /\ ret' = [kind |-> "running", value |-> None]
    /\ pre_dates' = last_successful_dates
    /\ own' = EmptyDict
    /\ UNCHANGED <<now, config, setup, overlap, coord, fallback, fetch, fhist, search>>

\* Mutant: the returned snapshot does not become coordinator.data
ReturnDataUnpublished ==
    /\ pc = "loop"
    /\ idx > Len(data_types)
    /\ ret' = [kind |-> "fresh", value |-> Some(new_data)]
    /\ pc' = "idle"
    /\ DropCycle /\ DropHistory
    /\ UNCHANGED <<now, cycles, config, setup, overlap, own, coord, fallback, fetch, pre_dates>>

\* The loop is over: `return data` (line 108); the value becomes coordinator.data
ReturnData ==
    /\ pc = "loop"
    /\ idx > Len(data_types)
    /\ data' = Some(new_data)
    /\ ret' = [kind |-> "fresh", value |-> Some(new_data)]
    /\ pc' = "idle"
    /\ DropCycle /\ DropHistory
    /\ UNCHANGED <<now, cycles, config, setup, overlap, own, last_successful_dates, last_checked_dates,
                   api_status, fallback, fetch, pre_dates>>

\* An exception is raised outside the per-category fetch path (lines 75-81)
RaiseInCycle ==
    /\ pc = "loop"
    /\ idx <= Len(data_types)
    /\ \E ex \in faults :
          HandleError(IF ex = "ClientError" THEN "connection_error" ELSE "error", ex)
    /\ DropHistory
    /\ UNCHANGED <<now, cycles, config, setup, overlap, last_successful_dates, last_checked_dates,
                   pre_dates>>

\* Mutant: a data type without indicators gets an empty result
SkipDataTypeStoresEmpty ==
    /\ pc = "loop"
    /\ idx <= Len(data_types)
    /\ get_station_indicators(DataType, stations[DataType]) = <<>>
    /\ new_data' = Put(new_data, DataType, EmptyDict)
    /\ idx' = idx + 1
    /\ UNCHANGED <<now, cycles, config, setup, overlap, own, coord, pc, today, extended_start_date,
                   fallback, fetch, fhist, search, chist>>

\* The station of the data type has no indicators: nothing is done (line 80)
SkipDataType ==
    /\ pc = "loop"
    /\ idx <= Len(data_types)
    /\ get_station_indicators(DataType, stations[DataType]) = <<>>
    /\ idx' = idx + 1
    /\ UNCHANGED <<now, cycles, config, setup, overlap, own, coord, pc, today, extended_start_date, new_data,
                   fallback, fetch, fhist, search, chist>>

\* The fetch of the data type starts with the extended window (lines 80-92, 142)
Dispatch ==
    /\ pc = "loop"
    /\ idx <= Len(data_types)
    /\ get_station_indicators(DataType, stations[DataType]) # <<>>
    /\ IF UsesFallback(DataType)
       THEN /\ phase' = "current"
            /\ search' = << Window(extended_start_date, today, "current", now, 0) >>
       ELSE /\ phase' = "direct"
            /\ search' = search
    /\ BeginFetch(extended_start_date, today)
    /\ UNCHANGED <<now, cycles, config, setup, overlap, own, coord, cycle, current_date, days_back, chist>>


\* The GET in flight ends (lines 194-295): a 200 response is parsed and
\* returned, a failure is retried after a delay or ends the fetch with {}.
Response ==
    /\ pc = "http"
    /\ \E o \in Outcomes(upstream, records[DataType]) :
        LET parsed == Process(o.body, EmptyDict, end_date, now)
            attempts == retries + 1
        IN
        /\ IF o.kind = "ok"
           THEN \* lines 195-243
                /\ resp_json' = o.body
                /\ result' = parsed
                /\ foutcomes' = Append(foutcomes, o.kind)
                /\ fdecoded' = Append(fdecoded, o.steps)
                /\ fstate' = "returned"
                /\ search' = Closed(search, parsed)
                /\ pc' = "fetched"
                /\ tried' = [tried EXCEPT ![idx] = "answered"]
                /\ UNCHANGED <<coord, retries, ftrace, cycle, ret, own>>
           ELSE IF ~Caught(o.kind)
           THEN \* the exception leaves the fetch and reaches the cycle's handler
                /\ HandleError("error", ErrorText(o.kind))
                /\ ftrace' = <<>> /\ foutcomes' = <<>> /\ search' = <<>>
                /\ fdecoded' = <<>>
                /\ fstate' = "raised"
                /\ UNCHANGED <<last_successful_dates, last_checked_dates>>
           ELSE IF ShouldRetry(attempts)
           THEN \* `retries += 1`, then `await asyncio.sleep(2)` and `continue`
                /\ retries' = attempts
                /\ api_status' = AttemptStatus(api_status, DataType, o)
                /\ foutcomes' = Append(foutcomes, o.kind)
                /\ fdecoded' = Append(fdecoded, o.steps)
                /\ ftrace' = Append(ftrace, "SLEEP")
                /\ pc' = "sleep"
                /\ tried' = [tried EXCEPT ![idx] = IF @ = "none" THEN "failed" ELSE @]
                /\ UNCHANGED <<data, last_successful_dates, last_checked_dates,
                               resp_json, result, fstate, search, cycle, ret, own>>
           ELSE \* all retries failed: `return {}`
                /\ retries' = attempts
                /\ api_status' = AttemptStatus(api_status, DataType, o)
                /\ foutcomes' = Append(foutcomes, o.kind)
                /\ fdecoded' = Append(fdecoded, o.steps)
                /\ result' = EmptyDict
                /\ fstate' = "returned"
                /\ search' = Closed(search, EmptyDict)
                /\ pc' = "fetched"
                /\ tried' = [tried EXCEPT ![idx] = IF @ = "none" THEN "failed" ELSE @]
                /\ UNCHANGED <<data, last_successful_dates, last_checked_dates,
                               resp_json, ftrace, cycle, ret, own>>
    /\ UNCHANGED <<now, cycles, config, setup, overlap, pre_dates>>
    /\ \/ pc' = "idle"
       \/ UNCHANGED <<phase, current_date, days_back, start_date, end_date>>

\* The retry delay is over: the loop issues the next GET (lines 190-194)
SleepDone ==
    /\ pc = "sleep"
    /\ pc' = "http"
    /\ ftrace' = Append(ftrace, "GET")
    /\ UNCHANGED <<now, cycles, config, setup, overlap, own, coord, cycle, fallback, fetch, foutcomes,
                   fdecoded, fstate,
                   search, chist>>

\* Mutant: the snapshot under construction is published as it grows
StoreInPlace(r) ==
    /\ new_data' = Put(new_data, DataType, r)
    /\ own' = Put(own, DataType, r)
    /\ data' = Some(new_data')
    /\ last_checked_dates' = Put(last_checked_dates, DataType, today)
    /\ api_status' =
          [Ensure(api_status, DataType) EXCEPT
              ![DataType].last_checked = isoformat(now),
              ![DataType].status = IF Truthy(r) THEN "success" ELSE "no_data"]
    /\ idx' = idx + 1
    /\ pc' = "loop"
    /\ DropFetch
    /\ UNCHANGED <<now, cycles, config, setup, overlap, today, extended_start_date, fhist, search, chist>>

\* Lines 94-106: the result of the data type is stored and its status set
Store(r) ==
    /\ new_data' = Put(new_data, DataType, r)
    /\ own' = Put(own, DataType, r)
    /\ last_checked_dates' = Put(last_checked_dates, DataType, today)
    /\ api_status' =
          [Ensure(api_status, DataType) EXCEPT
              ![DataType].last_checked = isoformat(now),
              ![DataType].status = IF Truthy(r) THEN "success" ELSE "no_data"]
    /\ idx' = idx + 1
    /\ pc' = "loop"
    /\ DropFetch
    /\ UNCHANGED <<now, cycles, config, setup, overlap, data, today, extended_start_date, fhist, search, chist>>

\* A data type other than pollen: the result of the one fetch is stored (line 90)
StoreDirect ==
    /\ pc = "fetched"
    /\ phase = "direct"
    /\ Store(result)
    /\ UNCHANGED last_successful_dates

\* The window holds data: its end date is recorded and the result returned
\* (lines 145-148, 163-166)
FoundData ==
    /\ pc = "fetched"
    /\ phase \in {"current", "hist"}
    /\ HasData(result)
    /\ last_successful_dates' = Put(last_successful_dates, DataType, end_date)
    /\ Store(result)

\* The window holds nothing: the next window back is fetched (lines 150-160)
NextHistorical ==
    /\ pc = "fetched"
    /\ phase \in {"current", "hist"}
    /\ ~HasData(result)
    /\ LET date == IF phase = "current" THEN now ELSE current_date
           days == IF phase = "current" THEN FirstDaysBack ELSE days_back + 1
       IN /\ days <= LastDaysBack
          /\ current_date' = date
          /\ days_back' = days
          /\ phase' = "hist"
          /\ search' = Append(search,
                 Window(HistoricalStart(date, days), HistoricalEnd(date, days),
                        "hist", date, days))
          /\ BeginFetch(HistoricalStart(date, days), HistoricalEnd(date, days))
    /\ UNCHANGED <<now, cycles, config, setup, overlap, own, coord, cycle, chist>>

\* No window of the horizon holds data
Exhausted ==
    /\ pc = "fetched"
    /\ ~HasData(result)
    /\ \/ phase = "hist" /\ days_back + 1 > LastDaysBack
       \/ phase = "current" /\ FirstDaysBack > LastDaysBack

\* ... and a last successful date is known: its window is fetched (lines 170-175)
LastKnown ==
    /\ Exhausted
    /\ DataType \in DOMAIN last_successful_dates
    /\ LET last_date == last_successful_dates[DataType]
       IN /\ phase' = "last"
          /\ search' = Append(search,
                 Window(LastKnownStart(last_date), last_date, "last", now, 0))
          /\ BeginFetch(LastKnownStart(last_date), last_date)
    /\ UNCHANGED <<now, cycles, config, setup, overlap, own, coord, cycle, current_date, days_back, chist>>

\* ... and none is known: `return {}` (line 178)
NoHistorical ==
    /\ Exhausted
    /\ DataType \notin DOMAIN last_successful_dates
    /\ Store(EmptyDict)
    /\ UNCHANGED last_successful_dates

\* Whatever the window of the last successful date yields is returned (line 175)
StoreLastKnown ==
    /\ pc = "fetched"
    /\ phase = "last"
    /\ Store(result)
    /\ UNCHANGED last_successful_dates

Next ==
    \/ Tick
    \/ StartCycle
    \/ ReturnData
    \/ RaiseInCycle
    \/ SkipDataType
    \/ Dispatch
    \/ Response
    \/ SleepDone
    \/ StoreDirect
    \/ FoundData
    \/ NextHistorical
    \/ LastKnown
    \/ NoHistorical
    \/ StoreLastKnown

Spec == Init /\ [][Next]_vars

\* The coordinator configured with radiation alone, against an upstream that
\* may fail in every way.
NextRetry ==
    \/ Tick
    \/ StartCycle
    \/ ReturnData
    \/ RaiseInCycle
    \/ Dispatch
    \/ Response
    \/ SleepDone
    \/ StoreDirect

SpecRetry == InitRetry /\ [][NextRetry]_vars

\* The coordinator configured with both data types, against an upstream that
\* answers 200 or 503.
NextOutage ==
    \/ Tick
    \/ StartCycle
    \/ ReturnData
    \/ Dispatch
    \/ Response
    \/ SleepDone
    \/ StoreDirect
    \/ FoundData
    \/ NextHistorical
    \/ LastKnown
    \/ NoHistorical
    \/ StoreLastKnown

SpecOutage == InitOutage /\ [][NextOutage]_vars

\* The steps of a running cycle.  Each of them happens once it can: a GET
\* ends within its timeout, the retry delay ends, and the code between two
\* awaits runs to the next one.
Progress ==
    \/ ReturnData
    \/ Dispatch
    \/ Response
    \/ SleepDone
    \/ StoreDirect
    \/ FoundData
    \/ NextHistorical
    \/ LastKnown
    \/ NoHistorical
    \/ StoreLastKnown

\* The coordinator configured with one data type, against an upstream that
\* answers 200 or 503, with the steps of a running cycle taken fairly.
NextLive ==
    \/ Tick
    \/ StartCycle
    \/ Progress

SpecLive == InitLive /\ [][NextLive]_vars /\ WF_vars(Progress)

\* The coordinator configured with radiation alone, against an upstream whose
\* 200 responses take every course through the decoding.
NextDecode ==
    \/ Tick
    \/ StartCycle
    \/ ReturnData
    \/ Dispatch
    \/ Response
    \/ SleepDone
    \/ StoreDirect

SpecDecode == InitDecode /\ [][NextDecode]_vars

\* The coordinator configured with air quality alone, against an upstream that
\* always answers 200; its sensors read the snapshot.
NextSensor ==
    \/ Tick
    \/ StartCycle
    \/ ReturnData
    \/ Dispatch
    \/ Response
    \/ StoreDirect

SpecSensor == InitSensor /\ [][NextSensor]_vars

(***************************************************************************)
(* Two calls of _async_update_data at a time: the scheduled refresh and    *)
(* the one of force_update (lines 309-312), each with its own locals       *)
(***************************************************************************)
\* The locals of the call that is not running are put in place of those of
\* the call that is, all but the dict `data` of line 72
SwitchLocals(l) ==
    /\ pc' = l.pc /\ today' = l.today /\ extended_start_date' = l.extended_start_date
    /\ idx' = l.idx /\ phase' = l.phase
    /\ current_date' = l.current_date /\ days_back' = l.days_back
    /\ start_date' = l.start_date /\ end_date' = l.end_date /\ retries' = l.retries
    /\ resp_json' = l.resp_json /\ result' = l.result /\ ftrace' = l.ftrace
    /\ foutcomes' = l.foutcomes /\ fdecoded' = l.fdecoded /\ fstate' = l.fstate
    /\ search' = l.search /\ tried' = l.tried /\ ret' = l.ret
    /\ pre_dates' = l.pre_dates /\ own' = l.own

\* Mutant: the dict `data` is one object that both calls write to
SwitchDataShared(l) == new_data' = new_data

\* `data = {}` (line 72) is a local of the call: each call has its own
SwitchData(l) == new_data' = l.new_data

\* The event loop runs the other call: the running call is suspended in a GET
\* or a retry delay, or has returned, and the other one is resumed where it
\* was suspended, or is about to be started by the scheduler or force_update
Switch ==
    /\ pc \in {"idle", "http", "sleep"}
    /\ pc # "idle" \/ parked.pc # "idle"
    /\ active' = IF active = "scheduled" THEN "forced" ELSE "scheduled"
    /\ parked' = Locals
    /\ SwitchLocals(parked)
    /\ SwitchData(parked)
    /\ UNCHANGED <<now, cycles, config, setup, coord>>

NextOverlap ==
    \/ StartCycle
    \/ Switch
    \/ ReturnData
    \/ Dispatch
    \/ Response
    \/ SleepDone
    \/ StoreDirect

SpecOverlap == InitOverlap /\ [][NextOverlap]_vars

(***************************************************************************)
(* The configuration wizard (config_flow.py) and the loading and unloading *)
(* of configuration entries (__init__.py, services.py)                     *)
(***************************************************************************)
\* What the form of the step user can submit: the data types ticked, none
\* twice, in the order the form gives them (cv.multi_select(DATA_TYPES))
Selections ==
    LET types == {DATA_TYPE_AIR_QUALITY, DATA_TYPE_POLLEN, DATA_TYPE_RADIATION}
    IN UNION { { q \in [1..n -> types] : \A i, j \in 1..n : q[i] = q[j] => i = j } :
                  n \in 0..3 }

\* The options of the station form for the data type (lines 77-80)
station_options(current_data_type) ==
    IF current_data_type \in DOMAIN STATIONS
    THEN { str(station_id) : station_id \in DOMAIN STATIONS[current_data_type] }
    ELSE {}

\* Mutant: the last data type without a station comes first
current_data_type_reversed(d) ==
    LET open == { i \in DOMAIN d.data_types : d.data_types[i] \notin DOMAIN d.stations }
    IN IF open = {}
       THEN None
       ELSE Some(d.data_types[CHOOSE i \in open : \A j \in open : j <= i])

\* `next((dt for dt in self.data[CONF_DATA_TYPES] if dt not in
\* self.data[CONF_STATIONS]), None)` (lines 56-59)
current_data_type(d) ==
    LET open == { i \in DOMAIN d.data_types : d.data_types[i] \notin DOMAIN d.stations }
    IN IF open = {}
       THEN None
       ELSE Some(d.data_types[CHOOSE i \in open : \A j \in open : i <= j])

\* async_step_select_stations called without input, on the flow's data `d`:
\* the entry is created when no data type lacks a station (lines 61-66),
\* else the form for the first such data type is shown (lines 76-89)
SelectStations(d) ==
    /\ flow_data' = d
    /\ IF current_data_type(d) = None
       THEN /\ entry' = Some(d)
            /\ created' = created + 1
            /\ flow_step' = "done"
            /\ asked' = asked
       ELSE /\ flow_step' = "select_stations"
            /\ asked' = Append(asked, current_data_type(d)[1])
            /\ UNCHANGED <<entry, created>>

\* A flow is started: async_step_user without input shows the form of the
\* step user (lines 27-29, 41-49)
FlowInit ==
    /\ flow_step \in {"none", "done"}
    /\ created < MaxEntries
    /\ flow_step' = "user"
    /\ flow_data' = EmptyDict
    /\ entry' = None
    /\ asked' = <<>>
    /\ submitted' = <<>>
    /\ UNCHANGED <<coordinator, created, loaded, registered>>

\* The form of the step user is submitted (lines 35-39)
SubmitDataTypes ==
    /\ flow_step = "user"
    /\ \E types \in Selections :
          SelectStations([data_types |-> types, stations |-> EmptyDict])
    /\ UNCHANGED <<coordinator, loaded, registered, submitted>>

\* The station form is submitted (lines 68-74): the station is saved for the
\* first data type without one, and the step runs again without input
SubmitStation ==
    /\ flow_step = "select_stations"
    /\ LET current == current_data_type(flow_data)[1] IN
       \E station_id \in station_options(current) :
          /\ submitted' = Append(submitted, [data_type |-> current, station |-> station_id])
          /\ SelectStations([flow_data EXCEPT
                               !.stations = Put(flow_data.stations, current, station_id)])
    /\ UNCHANGED <<coordinator, loaded, registered>>

\* async_setup_entry (__init__.py, lines 26-42): the coordinator of the entry
\* is put into hass.data[DOMAIN]; a failing first refresh does not stop it
SetupEntry(entry_id) ==
    /\ entry_id \in (1..created) \ loaded
    /\ loaded' = loaded \cup {entry_id}
    /\ UNCHANGED <<coordinator, flow_step, flow_data, entry, created, registered, asked,
                   submitted>>

\* async_unload_entry (__init__.py, lines 44-57) with the outcome unload_ok of
\* unloading the platforms; async_unload_services (services.py, lines 61-64)
\* removes the service when no entry is left
UnloadEntry(entry_id, unload_ok) ==
    /\ entry_id \in loaded
    /\ IF unload_ok
       THEN /\ loaded' = loaded \ {entry_id}
            /\ registered' = IF loaded' = {} THEN FALSE ELSE registered
       ELSE UNCHANGED <<loaded, registered>>
    /\ UNCHANGED <<coordinator, flow_step, flow_data, entry, created, asked, submitted>>

NextSetup ==
    \/ FlowInit
    \/ SubmitDataTypes
    \/ SubmitStation
    \/ \E entry_id \in 1..MaxEntries : SetupEntry(entry_id)
    \/ \E entry_id \in 1..MaxEntries, unload_ok \in BOOLEAN :
          UnloadEntry(entry_id, unload_ok)

SpecSetup == InitSetup /\ [][NextSetup]_vars

\* The coordinator configured with pollen alone, against an upstream that
\* always answers 200.
NextParse ==
    \/ Tick
    \/ StartCycle
    \/ ReturnData
    \/ Dispatch
    \/ Response
    \/ FoundData
    \/ NextHistorical
    \/ LastKnown
    \/ NoHistorical
    \/ StoreLastKnown

SpecParse == InitParse /\ [][NextParse]_vars


(***************************************************************************)
(* Claims                                                                  *)
(***************************************************************************)
\* The number of times x occurs in seq
Count(seq, x) == Cardinality({i \in DOMAIN seq : seq[i] = x})

\* A result that holds at least one measurement
NonEmpty(r) == \E k \in DOMAIN r : Len(r[k]) > 0

\* C1: if the cached snapshot holds measurements for a data type and every
\* fetch attempt for that data type fails in the cycle that now returns, the
\* snapshot the cycle returns still holds those measurements for the data type.
C1_FailedFetchKeepsPreviousData ==
    [][ (pc = "loop" /\ pc' = "idle" /\ ret'.kind = "fresh") =>
          \A i \in DOMAIN data_types :
             LET dt == data_types[i] IN
             ( /\ data # None
               /\ dt \in DOMAIN data[1]
               /\ NonEmpty(data[1][dt])
               /\ tried[i] = "failed" )
             => ( /\ dt \in DOMAIN ret'.value[1]
                  /\ ret'.value[1][dt] = data[1][dt] ) ]_vars

\* C2: a retried fetch in which every response is non-200 issues exactly
\* MAX_RETRIES GETs with one delay between each two consecutive GETs and none
\* after the last, and then returns the empty result.
C2_NonOkRetriedExactlyMaxRetries ==
    ( /\ pc = "fetched"
      /\ \A i \in DOMAIN foutcomes : foutcomes[i] = "http" )
    => ( /\ Len(foutcomes) = MAX_RETRIES
         /\ Count(ftrace, "GET") = MAX_RETRIES
         /\ Count(ftrace, "SLEEP") = MAX_RETRIES - 1
         /\ \A i \in DOMAIN ftrace :
               ftrace[i] = IF i % 2 = 1 THEN "GET" ELSE "SLEEP"
         /\ fstate = "returned"
         /\ result = EmptyDict )

C2_Witness ==
    /\ pc = "fetched"
    /\ foutcomes = <<"http", "http", "http">>
    /\ ftrace = <<"GET", "SLEEP", "GET", "SLEEP", "GET">>

\* C3: whatever the attempts of a retried fetch end in, the fetch never raises,
\* issues at most MAX_RETRIES GETs, and returns the empty result when no
\* attempt succeeded.
C3_FetchNeverRaises ==
    /\ fstate # "raised"
    /\ Count(ftrace, "GET") <= MAX_RETRIES
    /\ Len(foutcomes) <= MAX_RETRIES
    /\ ( pc = "fetched" /\ (\A i \in DOMAIN foutcomes : foutcomes[i] # "ok") )
       => ( fstate = "returned" /\ result = EmptyDict /\ Len(foutcomes) = MAX_RETRIES )

C3_Witness ==
    /\ pc = "fetched"
    /\ fstate = "returned"
    /\ result = EmptyDict
    /\ foutcomes = <<"timeout", "bad_record", "decode">>


\* The fallback search of this cycle has returned to the cycle
SearchReturned == search # <<>> /\ DATA_TYPE_POLLEN \in DOMAIN new_data

\* The window k of the search log returned measurements
Hit(k) == search[k].got # None /\ NonEmpty(search[k].got[1])

\* The window k of the search log returned nothing
Miss(k) == search[k].got # None /\ ~NonEmpty(search[k].got[1])

\* The number of windows of the horizon: the current one and the historical ones
Horizon == 1 + (MAX_HISTORICAL_DAYS - EXTENDED_DATA_WINDOW)

\* C4: the fallback search fetches the current extended window first, then the
\* windows for EXTENDED_DATA_WINDOW+1 .. MAX_HISTORICAL_DAYS days back, each
\* ending strictly earlier than the one before; it fetches nothing after the
\* first window that returned measurements, and returns that window's result.
C4_MostRecentFirst ==
    /\ \A k \in DOMAIN search :
          /\ k = 1 =>
                /\ search[k].phase = "current"
                /\ search[k].start_date = extended_start_date
                /\ search[k].end_date = today
          /\ search[k].phase = "hist" =>
                /\ k > 1
                /\ search[k].days_back = EXTENDED_DATA_WINDOW + k - 1
                /\ search[k].days_back <= MAX_HISTORICAL_DAYS
                /\ strptime(search[k].end_date) < strptime(search[k - 1].end_date)
          /\ k < Len(search) => Miss(k)
    /\ \A k \in DOMAIN search :
          (SearchReturned /\ Hit(k)) => new_data[DATA_TYPE_POLLEN] = search[k].got[1]

\* C5 as stated: every window the fallback search requests, at any step,
\* starts no more than MAX_HISTORICAL_DAYS days before the date of the cycle.
C5_EveryWindowWithinHorizon ==
    \A k \in DOMAIN search :
        strptime(today) - strptime(search[k].start_date) <= MAX_HISTORICAL_DAYS

\* C5, amended: the current window and every historical window start no more
\* than MAX_HISTORICAL_DAYS days before the date the code read for that step
\* (and before the date of the cycle); the window of the last known date
\* starts EXTENDED_DATA_WINDOW days before the last successful date recorded
\* when the cycle began, however long ago that is.
C5_WalkWithinHorizon ==
    \A k \in DOMAIN search :
        /\ search[k].phase \in {"current", "hist"} =>
              /\ search[k].date - strptime(search[k].start_date) <= MAX_HISTORICAL_DAYS
              /\ strptime(today) - strptime(search[k].start_date) <= MAX_HISTORICAL_DAYS
        /\ search[k].phase = "last" =>
              /\ DATA_TYPE_POLLEN \in DOMAIN pre_dates
              /\ search[k].end_date = pre_dates[DATA_TYPE_POLLEN]
              /\ strptime(search[k].end_date) - strptime(search[k].start_date)
                    = EXTENDED_DATA_WINDOW

\* A historical window that starts exactly MAX_HISTORICAL_DAYS days back, and
\* a window of a last known date that starts further back.
C5_Witness ==
    /\ Len(search) = Horizon + 1
    /\ search[Horizon].phase = "hist"
    /\ search[Horizon].date - strptime(search[Horizon].start_date) = MAX_HISTORICAL_DAYS
    /\ search[Horizon + 1].phase = "last"
    /\ strptime(today) - strptime(search[Horizon + 1].start_date) > MAX_HISTORICAL_DAYS

\* Every window of the horizon returned nothing
HorizonEmpty == Len(search) >= Horizon /\ \A k \in 1..Horizon : Miss(k)

\* C6: when the current window and every historical window returned nothing:
\* if a last successful date is recorded, exactly one more fetch is issued,
\* for the window ending at that date, its result is returned whatever it is
\* and the recorded date stays; if none is recorded, the empty result is
\* returned without a further fetch.
C6_LastResort ==
    HorizonEmpty =>
        IF DATA_TYPE_POLLEN \in DOMAIN pre_dates
        THEN /\ Len(search) <= Horizon + 1
             /\ Len(search) = Horizon + 1 =>
                   /\ search[Horizon + 1].phase = "last"
                   /\ search[Horizon + 1].end_date = pre_dates[DATA_TYPE_POLLEN]
                   /\ strptime(search[Horizon + 1].start_date)
                         = strptime(pre_dates[DATA_TYPE_POLLEN]) - EXTENDED_DATA_WINDOW
             /\ SearchReturned =>
                   /\ Len(search) = Horizon + 1
                   /\ search[Horizon + 1].got = Some(new_data[DATA_TYPE_POLLEN])
             /\ last_successful_dates = pre_dates
        ELSE /\ Len(search) = Horizon
             /\ SearchReturned => new_data[DATA_TYPE_POLLEN] = EmptyDict
             /\ last_successful_dates = pre_dates

\* The window of the last known date was fetched and its measurements returned.
C6_Witness ==
    /\ HorizonEmpty
    /\ SearchReturned
    /\ Len(search) = Horizon + 1
    /\ Hit(Horizon + 1)
    /\ NonEmpty(new_data[DATA_TYPE_POLLEN])

\* C7: whenever the last successful date of a data type changes, the new value
\* is the end date of a window of this cycle whose fetch returned measurements.
C7_SuccessDateOnlyFromData ==
    [][ \A dt \in DOMAIN last_successful_dates' :
          ( dt \notin DOMAIN last_successful_dates
            \/ last_successful_dates'[dt] # last_successful_dates[dt] )
          => \E k \in DOMAIN search :
                /\ Hit(k)
                /\ search[k].end_date = last_successful_dates'[dt] ]_vars

\* The last successful date has moved from one date to another in this cycle.
C7_Witness ==
    /\ pc = "loop"
    /\ DATA_TYPE_POLLEN \in DOMAIN pre_dates
    /\ last_successful_dates[DATA_TYPE_POLLEN] # pre_dates[DATA_TYPE_POLLEN]

\* The search ended at the historical step that returned measurements
EndedAtHistorical ==
    /\ SearchReturned
    /\ search[Len(search)].phase = "hist"
    /\ Hit(Len(search))

\* C8 as stated: when the historical step d days back is the first to return
\* measurements, the search returns that step's result and the last successful
\* date recorded is the date d days back.
C8_RecordsDayDBack ==
    EndedAtHistorical =>
        LET w == search[Len(search)] IN
        /\ new_data[DATA_TYPE_POLLEN] = w.got[1]
        /\ last_successful_dates[DATA_TYPE_POLLEN]
              = strftime(w.date - w.days_back)

\* C8, amended: ... the last successful date recorded is the end date of that
\* step's window, the date d - EXTENDED_DATA_WINDOW days before the date the
\* search read when the walk began.
C8_RecordsWindowEnd ==
    EndedAtHistorical =>
        LET w == search[Len(search)] IN
        /\ \A k \in 1..(Len(search) - 1) : Miss(k)
        /\ new_data[DATA_TYPE_POLLEN] = w.got[1]
        /\ last_successful_dates[DATA_TYPE_POLLEN]
              = strftime(w.date - (w.days_back - EXTENDED_DATA_WINDOW))
        /\ last_successful_dates[DATA_TYPE_POLLEN] = w.end_date

\* The step 5 days back was the first to return a record.
C8_Witness ==
    /\ EndedAtHistorical
    /\ search[Len(search)].days_back = 5
    /\ Len(new_data[DATA_TYPE_POLLEN][48]) = 1

\* C9: when an exception is raised in a cycle outside the per-category fetch
\* path: if a cached snapshot exists, the cycle returns it and the status of
\* every configured data type is marked with the error; if none exists, the
\* cycle raises UpdateFailed.
C9_CycleErrorFallsBack ==
    ret.kind \in {"cached", "UpdateFailed"} =>
        IF data # None
        THEN /\ ret.kind = "cached"
             /\ ret.value = data
             /\ \A i \in DOMAIN data_types :
                   /\ data_types[i] \in DOMAIN api_status
                   /\ api_status[data_types[i]].status \in {"error", "connection_error"}
                   /\ api_status[data_types[i]].error \in faults
        ELSE ret.kind = "UpdateFailed"

\* The cached snapshot was returned after an exception in the second cycle.
C9_Witness ==
    /\ ret.kind = "cached"
    /\ data # None
    /\ \A i \in DOMAIN data_types : api_status[data_types[i]].status = "error"

\* C10: if a cycle fails fatally and a cached snapshot exists, the cycle
\* returns the cached snapshot and the last successful date of every data type
\* is what it was when the cycle began.
C10_FatalCycleLeavesSuccessDates ==
    ret.kind = "cached" =>
        /\ ret.value = data
        /\ last_successful_dates = pre_dates

\* C11: every step that ends a cycle without taking an except handler returns
\* the snapshot built in that cycle, and that snapshot is the cached one from
\* then on, whatever the results in it.
C11_CompletedCycleIsCached ==
    [][ (pc # "idle" /\ pc' = "idle" /\ ret'.kind \notin {"cached", "UpdateFailed"})
        => /\ ret' = [kind |-> "fresh", value |-> Some(new_data)]
           /\ data' = Some(new_data) ]_vars

\* A second cycle completed with every result empty, and its snapshot is cached.
C11_Witness ==
    /\ cycles = 2
    /\ pc = "idle"
    /\ ret.kind = "fresh"
    /\ data = ret.value
    /\ DATA_TYPE_POLLEN \in DOMAIN data[1]
    /\ \A dt \in DOMAIN data[1] : data[1][dt] = EmptyDict

\* The data types of the configuration whose station has indicators
Fetched == { data_types[i] : i \in { j \in DOMAIN data_types :
                 get_station_indicators(data_types[j], stations[data_types[j]]) # <<>> } }

\* C12: at every moment coordinator.data is either unset (no cycle has
\* finished) or a snapshot with an entry for every data type a cycle fetches;
\* until the first cycle has finished it is unset, also while that cycle is
\* suspended with part of its results stored.
C12_SnapshotNeverPartial ==
    /\ data # None => DOMAIN data[1] = Fetched
    /\ (cycles = 0 \/ (cycles = 1 /\ pc # "idle")) => data = None

\* A later cycle is suspended in an HTTP call with one result stored while the
\* snapshot of the cycle before is the one in coordinator.data.
C12_Witness ==
    /\ pc = "http"
    /\ idx = 2
    /\ DOMAIN new_data = {DATA_TYPE_POLLEN}
    /\ data # None
    /\ DOMAIN data[1] = {DATA_TYPE_POLLEN, DATA_TYPE_RADIATION}

\* The records of the result r all come from `station` and are filed under
\* one of `indicators`
OwnRecords(r, station, indicators) ==
    \A k \in DOMAIN r :
        /\ \E n \in DOMAIN indicators : indicators[n] = k
        /\ \A n \in DOMAIN r[k] : r[k][n].station = station

\* C13: no cycle raises because the attempts for a data type failed; when the
\* loop of a cycle is over and every attempt for one data type failed, every
\* other data type was fetched all the same, and its entry in the snapshot is
\* {} if its own attempts all failed and holds only records of its own station
\* and indicators otherwise.
C13_FailedCategoryLeavesOthers ==
    /\ fstate # "raised"
    /\ ret.kind \notin {"cached", "UpdateFailed"}
    /\ (pc = "loop" /\ idx > Len(data_types)) =>
          \A i \in DOMAIN data_types :
             tried[i] = "failed" =>
                \A j \in DOMAIN data_types \ {i} :
                   LET dt == data_types[j] IN
                   /\ tried[j] \in {"answered", "failed"}
                   /\ dt \in DOMAIN new_data
                   /\ tried[j] = "failed" => new_data[dt] = EmptyDict
                   /\ OwnRecords(new_data[dt], int(stations[dt]),
                                 get_station_indicators(dt, stations[dt]))

\* Every attempt for pollen failed, in every window, and radiation was fetched
\* after it and has a record in the snapshot.
C13_Witness ==
    /\ pc = "loop"
    /\ idx > Len(data_types)
    /\ tried[1] = "failed"
    /\ new_data[DATA_TYPE_POLLEN] = EmptyDict
    /\ NonEmpty(new_data[DATA_TYPE_RADIATION])

\* Every attempt of the fetch that ended last was of one of `kinds`
AllAttempts(kinds) == \A i \in DOMAIN foutcomes : foutcomes[i] \in kinds

\* C14: when the loop of a cycle is over, the status of the data type fetched
\* last tells how its fetch ended: success when records were obtained, no_data
\* when the upstream answered with no records, timeout when the attempts
\* timed out, connection_error or error when they ended in non-200 responses
\* or other failures, with the HTTP status recorded after non-200 responses.
C14_StatusReflectsOutcome ==
    (pc = "loop" /\ idx > Len(data_types) /\ foutcomes # <<>>) =>
        LET dt == data_types[Len(data_types)]
            st == api_status[dt]
            last == foutcomes[Len(foutcomes)]
        IN
        /\ (last = "ok" /\ NonEmpty(new_data[dt])) => st.status = "success"
        /\ (last = "ok" /\ ~NonEmpty(new_data[dt])) => st.status = "no_data"
        /\ AllAttempts({"timeout"}) => st.status = "timeout"
        /\ AllAttempts({"http"}) =>
              /\ st.status \in {"connection_error", "error"}
              /\ st.http_status \in {404, 503}
        /\ AllAttempts({"client_error", "bad_record", "malformed"}) =>
              st.status \in {"connection_error", "error"}

\* The data type at position i of the configuration has no indicators
NoIndicators(i) == get_station_indicators(data_types[i], stations[data_types[i]]) = <<>>

C16_MalformedInputPropagates ==
    \A i \in DOMAIN foutcomes :
        foutcomes[i] = "malformed" =>
           /\ i = Len(foutcomes)
           /\ fstate = "raised"
           /\ pc # "sleep"

\* Every record of the result r carries the fetch date `date`
Stamped(r, date) ==
    \A k \in DOMAIN r : \A n \in DOMAIN r[k] : r[k][n].fetch_date = date

\* C17: every record carries as fetch_date the end date of the window of the
\* request that returned it: in the result of a fetch, in the result of every
\* window of the fallback search, in what the search returned and in the
\* snapshot under construction.
C17_FetchDateIsWindowEnd ==
    /\ pc = "fetched" => Stamped(result, end_date)
    /\ \A k \in DOMAIN search :
          search[k].got # None => Stamped(search[k].got[1], search[k].end_date)
    /\ SearchReturned => Stamped(new_data[DATA_TYPE_POLLEN], search[Len(search)].end_date)
    /\ DATA_TYPE_RADIATION \in DOMAIN new_data =>
          Stamped(new_data[DATA_TYPE_RADIATION], today)

\* The window of the last successful date returned a record; the record in the
\* snapshot carries that date, which is not the date of the cycle.
C17_Witness ==
    /\ SearchReturned
    /\ search[Len(search)].phase = "last"
    /\ Hit(Len(search))
    /\ 48 \in DOMAIN new_data[DATA_TYPE_POLLEN]
    /\ new_data[DATA_TYPE_POLLEN][48][1].fetch_date = pre_dates[DATA_TYPE_POLLEN]
    /\ pre_dates[DATA_TYPE_POLLEN] # today

\* The indicator ids that occur in the records of a response body
Ids(body) == { body[i].indicator : i \in DOMAIN body }

\* The records of a response body for the indicator id, in response order
Of(body, id) == SelectSeq(body, LAMBDA item : item.indicator = id)

\* C18: after a 200 response the keys of the result are exactly the indicator
\* ids that occur in the response; each key maps to that indicator's records,
\* in response order, as many as the response has, each with status success;
\* so the result is non-empty only if the response has a record, and a
\* response with records for one indicator yields exactly one key.
C18_ResultGroupsResponse ==
    (pc = "fetched" /\ foutcomes # <<>> /\ foutcomes[Len(foutcomes)] = "ok") =>
        /\ DOMAIN result = Ids(resp_json)
        /\ \A id \in DOMAIN result :
              LET items == Of(resp_json, id) IN
              /\ Len(items) > 0
              /\ Len(result[id]) = Len(items)
              /\ \A n \in DOMAIN items :
                    /\ result[id][n].measured = items[n].measured
                    /\ result[id][n].value = items[n].value
                    /\ result[id][n].station = items[n].station
                    /\ result[id][n].status = "success"
        /\ NonEmpty(result) <=> resp_json # <<>>
        /\ Cardinality(Ids(resp_json)) = 1 => Cardinality(DOMAIN result) = 1

\* A response with two records for one indicator was parsed: one key, the two
\* records in the order of the response.
C18_Witness ==
    /\ pc = "fetched"
    /\ Len(resp_json) = 2
    /\ resp_json[1].indicator = resp_json[2].indicator
    /\ resp_json[1].value = "2.5"
    /\ resp_json[2].value = "1.5"
    /\ Cardinality(DOMAIN result) = 1
    /\ Len(result[resp_json[1].indicator]) = 2

\* The number of windows the fallback search fetches at most: the current
\* one, the historical steps and the one of the last successful date
MaxWindows == MAX_HISTORICAL_DAYS - EXTENDED_DATA_WINDOW + 2

\* C19: every cycle that has started ends, and the GETs it issues are bounded:
\* a fetch issues at most MAX_RETRIES, a data type fetched directly has one
\* fetch, and the fallback search has at most MaxWindows fetches, so at most
\* MAX_RETRIES * MaxWindows GETs.
C19_CycleTerminatesBounded ==
    /\ [] ( /\ Count(ftrace, "GET") <= MAX_RETRIES
            /\ phase = "direct" => search = <<>>
            /\ Len(search) <= MaxWindows
            /\ phase \in {"current", "hist", "last"} =>
                  MAX_RETRIES * (Len(search) - 1) + Count(ftrace, "GET")
                     <= MAX_RETRIES * MaxWindows )
    /\ (pc # "idle") ~> (pc = "idle")

\* The last of MAX_RETRIES * MaxWindows GETs of a fallback search has failed:
\* no attempt in any window was answered.
C19_Witness ==
    /\ pc = "fetched"
    /\ phase = "last"
    /\ Len(search) = MaxWindows
    /\ tried[1] = "failed"
    /\ Count(ftrace, "GET") = MAX_RETRIES

\* C20: when the loop of a cycle is over and the fetch of the data type
\* fetched last succeeded at its first attempt with records, the status entry
\* of the data type reads success and holds no error text and no HTTP failure
\* status: nothing an earlier cycle wrote is left in it.
C20_SuccessClearsOldFailure ==
    (pc = "loop" /\ idx > Len(data_types) /\ foutcomes = <<"ok">>) =>
        LET dt == data_types[Len(data_types)] IN
        NonEmpty(new_data[dt]) =>
           /\ api_status[dt].status = "success"
           /\ api_status[dt].error = ""
           /\ api_status[dt].http_status = 0

(***************************************************************************)
(* C21: the freshness state (status, error text, last successful date,     *)
(* last checked) is written only when a cycle ends: while a cycle is       *)
(* suspended in an HTTP call or a retry delay, a reader sees the values of *)
(* before the cycle started. The code writes them during the cycle.        *)
(***************************************************************************)
C21_FreshnessWrittenAtCycleEnd ==
    pc \in {"http", "sleep"} =>
        /\ last_successful_dates = pre_dates
        /\ cycles = 1 => last_checked_dates = EmptyDict /\ api_status = EmptyDict

(***************************************************************************)
(* C23: a last successful date is only ever recorded for a data type that  *)
(* is fetched with the historical fallback (pollen); for every other data  *)
(* type none is recorded, whatever the cycles returned for it.             *)
(***************************************************************************)
C23_SuccessDateForPollenOnly ==
    \A dt \in DOMAIN last_successful_dates : dt = DATA_TYPE_POLLEN

\* Two cycles have returned data for radiation, and no date is recorded for it
C23_Witness ==
    /\ cycles = MaxCycles
    /\ pc = "idle"
    /\ ret.kind = "fresh"
    /\ DATA_TYPE_RADIATION \in DOMAIN data[1]
    /\ Truthy(data[1][DATA_TYPE_RADIATION])
    /\ DATA_TYPE_RADIATION \notin DOMAIN last_successful_dates
    /\ DATA_TYPE_POLLEN \in DOMAIN last_successful_dates

(***************************************************************************)
(* C24: a 200 response that parses to an empty list ends the retried fetch *)
(* at once: {} is returned after that attempt, with no delay and no        *)
(* further attempt; the status of a directly fetched data type is no_data, *)
(* and a fallback search goes on to its next window.                       *)
(***************************************************************************)
\* The attempt that just ended was answered 200 with the empty list
EmptyAnswer ==
    /\ foutcomes # <<>>
    /\ foutcomes[Len(foutcomes)] = "ok"
    /\ resp_json = <<>>

C24_EmptyListEndsFetch ==
    [][ (pc = "fetched" /\ EmptyAnswer) =>
          /\ result = EmptyDict
          /\ fstate = "returned"
          /\ ftrace[Len(ftrace)] = "GET"
          /\ Count(ftrace, "GET") = Len(foutcomes)
          /\ Count(ftrace, "SLEEP") = Len(foutcomes) - 1
          /\ retries = Len(foutcomes) - 1
          \* a directly fetched data type: {} is stored, the status is no_data
          /\ phase \in {"direct", "last"} =>
                /\ pc' = "loop"
                /\ new_data'[DataType] = EmptyDict
                /\ api_status'[DataType].status = "no_data"
          \* the search goes on to its next window, if one is left
          /\ phase \in {"current", "hist"} =>
                \/ /\ pc' = "http"
                   /\ Len(search') = Len(search) + 1
                   /\ \/ /\ search'[Len(search')].phase = "hist"
                         /\ search'[Len(search')].days_back =
                               IF phase = "current" THEN EXTENDED_DATA_WINDOW + 1
                               ELSE days_back + 1
                      \/ /\ search'[Len(search')].phase = "last"
                         /\ Len(search) = Horizon
                   /\ ftrace' = <<"GET">>
                \/ /\ Len(search) = Horizon
                   /\ DataType \notin DOMAIN last_successful_dates
                   /\ pc' = "loop"
                   /\ new_data'[DataType] = EmptyDict
                   /\ api_status'[DataType].status = "no_data"
      ]_vars

\* Radiation's second attempt, after a 503, is answered 200 with the empty list
C24_Witness ==
    /\ pc = "fetched"
    /\ phase = "direct"
    /\ foutcomes = <<"http", "ok">>
    /\ resp_json = <<>>
    /\ result = EmptyDict

(***************************************************************************)
(* C22: within one attempt on a 200 response the decoding steps are tried  *)
(* in order (text with the declared charset, the bytes as UTF-8 with       *)
(* replacement, then Latin-1 for the parsing); an attempt in which a step  *)
(* yields a parsed body returns the result without consuming a retry; only *)
(* when parsing fails under the last encoding does the attempt count as    *)
(* one failed attempt of MAX_RETRIES, followed by the delay unless it was  *)
(* the last one.                                                           *)
(***************************************************************************)
\* The names of the decoding steps of the attempt i
StepNames(i) == [k \in DOMAIN fdecoded[i] |-> fdecoded[i][k].step]

\* Whether the decoding step `name` of the attempt i was tried and failed
StepFailed(i, name) ==
    \E k \in DOMAIN fdecoded[i] : fdecoded[i][k].step = name /\ ~fdecoded[i][k].ok

\* Whether the decoding step `name` of the attempt i was tried
StepTried(i, name) == \E k \in DOMAIN fdecoded[i] : fdecoded[i][k].step = name

Annotated(snapshot, successful, checked, clock, indicator_id) ==
    "is_historical" \in DOMAIN extra_state_attributes(snapshot, successful, checked,
                                                      clock, DATA_TYPE_POLLEN, indicator_id)

C25_HistoricalAnnotation ==
    [][ /\ \A ind \in {48, 51} :
              HasPoints(data, DATA_TYPE_POLLEN, ind) =>
                 ( Annotated(data, last_successful_dates, last_checked_dates, now, ind)
                   <=> Latest(data[1][DATA_TYPE_POLLEN][ind]).fetch_date # strftime(now) )
        \* the step that publishes the snapshot of a search that found data
        /\ (pc = "loop" /\ pc' = "idle" /\ ret'.kind = "fresh"
               /\ SearchReturned /\ Hit(Len(search))) =>
              LET w == search[Len(search)] IN
              \A ind \in DOMAIN data'[1][DATA_TYPE_POLLEN] :
                 LET shown == Annotated(data', last_successful_dates',
                                        last_checked_dates', now', ind)
                 IN /\ Latest(data'[1][DATA_TYPE_POLLEN][ind]).fetch_date = w.end_date
                    /\ (w.phase \in {"hist", "last"} /\ strptime(w.end_date) < now')
                          => shown
                    /\ (w.phase = "current" /\ strptime(w.end_date) = now') => ~shown
                    /\ shown <=> strptime(w.end_date) # now'
      ]_vars

\* A snapshot fetched today whose measurement came from a window that ended on
\* an earlier day: the sensor shows it as historical
C25_Witness ==
    /\ pc = "idle"
    /\ ret.kind = "fresh"
    /\ HasPoints(data, DATA_TYPE_POLLEN, 48)
    /\ Latest(data[1][DATA_TYPE_POLLEN][48]).last_checked = isoformat(now)
    /\ Latest(data[1][DATA_TYPE_POLLEN][48]).fetch_date # strftime(now)
    /\ Annotated(data, last_successful_dates, last_checked_dates, now, 48)

(***************************************************************************)
(* C26: the value a sensor exposes for (data type, indicator) is the value *)
(* of the measurement with the greatest measured timestamp among the       *)
(* indicator's measurements in the snapshot, whatever their order; it is   *)
(* None when the snapshot has no entry or an empty list for the indicator  *)
(* or when that value is not a number.                                     *)
(***************************************************************************)
\* The measurements of the sensor's indicator in the snapshot
Points(sensor) ==
    IF HasPoints(data, sensor.data_type, sensor.indicator_id)
    THEN data[1][sensor.data_type][sensor.indicator_id]
    ELSE <<>>

\* The measurements of the sensor's indicator that no other one is newer than
Newest(sensor) ==
    { Points(sensor)[i] : i \in { j \in DOMAIN Points(sensor) :
         \A k \in DOMAIN Points(sensor) :
            fromisoformat(Points(sensor)[k].measured)
               <= fromisoformat(Points(sensor)[j].measured) } }

\* As stated: the exposed value is the newest measurement's value as a number.
\* Violated by the carbon monoxide sensor, which converts mg/m3 to ppm.
C26_ValueOfNewestMeasurement ==
    \A sensor \in Sensors(data_types, stations) :
        IF Points(sensor) = <<>>
        THEN native_value(sensor, data) = None
        ELSE \E p \in Newest(sensor) : native_value(sensor, data) = float(p.value)

\* Amended: ... multiplied by 0.873 for the carbon monoxide sensor.
C26_ValueOfNewestConverted ==
    \A sensor \in Sensors(data_types, stations) :
        IF Points(sensor) = <<>>
        THEN native_value(sensor, data) = None
        ELSE \E p \in Newest(sensor) :
                IF float(p.value) = None
                THEN native_value(sensor, data) = None
                ELSE IF sensor.indicator_id = 4
                THEN native_value(sensor, data) = Some((float(p.value)[1] * 873) \div 1000)
                ELSE native_value(sensor, data) = float(p.value)

\* The snapshot lists the newer carbon monoxide measurement before the older
\* one, and for PM10 a newer value that is not a number after an older number
C26_Witness ==
    /\ pc = "idle"
    /\ ret.kind = "fresh"
    /\ cycles = MaxCycles
    /\ \E sensor \in Sensors(data_types, stations) :
          /\ sensor.indicator_id = 4
          /\ Len(Points(sensor)) = 2
          /\ Points(sensor)[1].measured = "2025-03-01 11:00:00"
          /\ native_value(sensor, data) = Some(13095)

(***************************************************************************)
(* C27: the wizard creates the entry only once every selected data type    *)
(* has a station: for n selected data types it asks for stations one data  *)
(* type at a time in selection order, finishes after exactly n station     *)
(* submissions, and the stations of the entry have exactly the selected    *)
(* data types as keys, each mapped to the station submitted for it.        *)
(***************************************************************************)
C27_EntryOnceEveryTypeHasStation ==
    /\ flow_step \in {"none", "user"} => entry = None /\ asked = <<>> /\ submitted = <<>>
    /\ flow_step \in {"select_stations", "done"} =>
          LET types == flow_data.data_types
              n == Len(types)
          IN \* asked one at a time, in selection order
             /\ Len(asked) <= n
             /\ \A i \in DOMAIN asked : asked[i] = types[i]
             \* each submission is for the data type asked last
             /\ \A i \in DOMAIN submitted :
                   /\ submitted[i].data_type = types[i]
                   /\ flow_data.stations[types[i]] = submitted[i].station
             /\ DOMAIN flow_data.stations = { types[i] : i \in DOMAIN submitted }
             /\ flow_step = "select_stations" =>
                   /\ entry = None
                   /\ Len(submitted) < n
                   /\ Len(asked) = Len(submitted) + 1
             /\ flow_step = "done" =>
                   /\ Len(submitted) = n
                   /\ asked = types
                   /\ entry = Some(flow_data)
                   /\ DOMAIN entry[1].stations = { types[i] : i \in 1..n }

\* An entry for three data types, selected in an order of their own, created
\* after three submissions of which the last was for pollen
C27_Witness ==
    /\ flow_step = "done"
    /\ entry # None
    /\ entry[1].data_types = <<DATA_TYPE_RADIATION, DATA_TYPE_AIR_QUALITY, DATA_TYPE_POLLEN>>
    /\ entry[1].stations = [radiation |-> "46", airquality |-> "5", pollen |-> "25"]
    /\ Len(submitted) = 3
    /\ submitted[3] = [data_type |-> DATA_TYPE_POLLEN, station |-> "25"]

(***************************************************************************)
(* C28: after the setup of the component, for every sequence of loads and  *)
(* unloads of configured instances, the force-update service is registered *)
(* whenever at least one instance is loaded. The code removes the service  *)
(* with the last instance and registers it in async_setup only.            *)
(***************************************************************************)
C28_ServiceWhileLoaded == loaded # {} => registered

(***************************************************************************)
(* C29: when a forced refresh overlaps a scheduled refresh of the same     *)
(* instance, their steps interleaving at the suspension points of HTTP     *)
(* calls and retry delays, the snapshot each cycle returns contains only   *)
(* results fetched by that cycle, never a mix of results of both.          *)
(***************************************************************************)
\* The snapshot of the call with the locals l, under construction or
\* returned, holds what the fetches of that call returned, and nothing else
OwnOnly(l) ==
    /\ l.pc \in {"loop", "http", "sleep", "fetched"} => l.new_data = l.own
    /\ l.ret.kind = "fresh" => l.ret.value = Some(l.own)

C29_SnapshotOfOwnFetches == OwnOnly(Locals) /\ OwnOnly(parked)

\* The forced refresh ran from start to end while the scheduled one was
\* suspended in the retry delay of its second data type, and the two fetched
\* different results for the first data type
C29_Witness ==
    /\ active = "forced"
    /\ pc = "idle"
    /\ ret.kind = "fresh"
    /\ DOMAIN ret.value[1] = {DATA_TYPE_AIR_QUALITY, DATA_TYPE_RADIATION}
    /\ parked.pc = "sleep"
    /\ parked.idx = 2
    /\ parked.new_data[DATA_TYPE_AIR_QUALITY] # ret.value[1][DATA_TYPE_AIR_QUALITY]
====
